---------------------------- MODULE Spec2Model ----------------------------
(***************************************************************************)
(* Model of the CRM360 visitor tracking SDK                                *)
(* (packages/tracker-python/crm360_tracker/__init__.py).                   *)
(*                                                                         *)
(* The tracker builds one payload per tracked action and hands it to       *)
(* _send, which POSTs it and reduces the outcome to a boolean.  The Flask  *)
(* and Django integrations resolve the visitor and session id from the     *)
(* request cookies, call the tracker around the host's handler and set     *)
(* the two cookies on the response.                                        *)
(*                                                                         *)
(* Python values: None is the string NULL, a str is a TLA+ string, an int  *)
(* is an integer, a dict is a record or a function.  Form field names are  *)
(* sequences of one-character strings, so that str.lower() and the `in`    *)
(* substring test are computed character by character.                     *)
(***************************************************************************)
EXTENDS Integers, Sequences, FiniteSets, TLC

VARIABLES
    now,        \* wall clock, int(time.time() * 1000)
    drawn,      \* the session ids generate_session_id has returned, in order
    jar,        \* the client's cookie store: [vid, sid]
    resp,       \* the latest hook response whose cookies the client still holds
    last        \* the latest operation: its arguments, what it did, its result

vars == <<now, drawn, jar, resp, last>>

-----------------------------------------------------------------------------
(* Bounds of the model *)

MaxClock == 1
MaxUuid == 2
MaxFields == 2

-----------------------------------------------------------------------------
(* Python values *)

NULL == "<None>"

\* Python truthiness of an Optional[str]: None and "" are falsy
Falsy(x) == x = NULL \/ x = ""

API_KEY == "your-api-key"

VID_COOKIE == "crm360_vid"
SID_COOKIE == "crm360_sid"
VID_MAX_AGE == 365 * 24 * 60 * 60
SID_MAX_AGE == 30 * 60

-----------------------------------------------------------------------------
(* Transport *)

\* what requests.post does: a response with a status code, or an exception
StatusCodes == {200, 201, 500}
Outcomes == [kind : {"response"}, status_code : StatusCodes]
            \cup {[kind |-> "exception", status_code |-> 0]}

\* _send without the try/except: the exception of requests.post escapes
send_unguarded(event_type, data, o) ==
    [kind    |-> "send",
     payload |-> [apiKey |-> API_KEY, type |-> event_type, data |-> data],
     outcome |-> o,
     result  |-> o.kind = "response" /\ o.status_code = 200,
     raised  |-> o.kind = "exception"]

\* _send accepting every 2xx status
send_any_2xx(event_type, data, o) ==
    [kind    |-> "send",
     payload |-> [apiKey |-> API_KEY, type |-> event_type, data |-> data],
     outcome |-> o,
     result  |-> o.kind = "response" /\ o.status_code \div 100 = 2,
     raised  |-> FALSE]

\* CRM360Tracker._send: the call as an event of the operation's trace
_send(event_type, data, o) ==
    [kind    |-> "send",
     payload |-> [apiKey |-> API_KEY, type |-> event_type, data |-> data],
     outcome |-> o,
     result  |-> IF o.kind = "exception" THEN FALSE
                 ELSE o.status_code = 200,
     raised  |-> FALSE]

-----------------------------------------------------------------------------
(* Identifiers *)

\* hashlib.sha256(s.encode()).hexdigest()[:16], an opaque function of s
sha256_hex16(s) == "sha256(" \o s \o ")"

\* CRM360Tracker.generate_visitor_id
generate_visitor_id(user_agent, ip_address) ==
    sha256_hex16(user_agent \o ":" \o ip_address)

\* str(uuid.uuid4()): the n-th value drawn
uuid4(n) == "uuid-" \o ToString(n)

\* CRM360Tracker.generate_session_id, n values drawn before
generate_session_id(n) == uuid4(n + 1)

-----------------------------------------------------------------------------
(* URLs: a parsed URL, and the string the caller passes *)

Urls == {[origin |-> "https://example.com", path |-> "/products", query |-> "x=1"],
         [origin |-> "https://example.com", path |-> "", query |-> ""]}

\* the URL as a string
geturl(u) == u.origin \o u.path \o (IF u.query = "" THEN "" ELSE "?" \o u.query)

\* urlparse(url).path
urlparse_path(u) == u.path

-----------------------------------------------------------------------------
(* Form fields: names as sequences of characters *)

UpperCase == <<"A","B","C","D","E","F","G","H","I","J","K","L","M",
               "N","O","P","Q","R","S","T","U","V","W","X","Y","Z">>
LowerCase == <<"a","b","c","d","e","f","g","h","i","j","k","l","m",
               "n","o","p","q","r","s","t","u","v","w","x","y","z">>

\* str.lower() on one character
lower_char(c) ==
    IF \E i \in 1..Len(UpperCase) : UpperCase[i] = c
    THEN LowerCase[CHOOSE i \in 1..Len(UpperCase) : UpperCase[i] = c]
    ELSE c

\* str.lower()
lower(s) == [i \in 1..Len(s) |-> lower_char(s[i])]

\* Python's `kw in s` on strings
contains(s, kw) ==
    \E i \in 1..(Len(s) - Len(kw) + 1) : SubSeq(s, i, i + Len(kw) - 1) = kw

sensitive_keywords ==
    << <<"p","a","s","s","w","o","r","d">>,
       <<"s","e","c","r","e","t">>,
       <<"t","o","k","e","n">>,
       <<"c","r","e","d","i","t">>,
       <<"c","a","r","d">>,
       <<"c","v","v">>,
       <<"s","s","n">> >>

MASK == "***"

\* the test without key.lower()
is_sensitive_case_sensitive(key) ==
    \E j \in 1..Len(sensitive_keywords) : contains(key, sensitive_keywords[j])

\* any(kw in key.lower() for kw in sensitive_keywords)
is_sensitive(key) ==
    \E j \in 1..Len(sensitive_keywords) : contains(lower(key), sensitive_keywords[j])

\* an Optional[Dict[str, str]] argument: None, or a dict
NoDict == [is_none |-> TRUE, dict |-> <<>>]
Dict(d) == [is_none |-> FALSE, dict |-> d]

\* `if fields:` is false for None and for the empty dict
FalsyDict(fields) == fields.is_none \/ DOMAIN fields.dict = {}

\* the masking loop of track_form_submission (safe_fields)
mask_fields(fields) ==
    IF FalsyDict(fields) THEN <<>>
    ELSE [key \in DOMAIN fields.dict |->
            IF is_sensitive(key) THEN MASK ELSE fields.dict[key]]

-----------------------------------------------------------------------------
(* The tracker's operations.  Each yields the trace of what it did         *)
(* (events), its return value (ret), whether an exception left it (raised) *)
(* and the session ids it generated (gen).  t is the clock at the call, n *)
(* the number of uuids drawn before it, o the outcome of its POST.         *)

Result(events, ret, gen) ==
    [events |-> events,
     ret    |-> IF events[Len(events)].raised THEN NULL ELSE ret,
     raised |-> events[Len(events)].raised,
     gen    |-> gen]

\* start_session using session_id as passed, without the fallback
start_session_no_fallback(visitor_id, session_id, user_agent, ip_address, referrer, entry_page, utm_source, utm_medium, utm_campaign, utm_term, utm_content, n, t, o) ==
    Result(<<_send("session.start",
                   [visitorId |-> visitor_id, sessionId |-> session_id,
                    timestamp |-> t, referrer |-> referrer, entryPage |-> entry_page,
                    device |-> [userAgent |-> user_agent],
                    utm |-> [utmSource |-> utm_source, utmMedium |-> utm_medium,
                             utmCampaign |-> utm_campaign, utmTerm |-> utm_term,
                             utmContent |-> utm_content]], o)>>,
           [session_id |-> session_id, visitor_id |-> visitor_id], <<>>)

\* start_session returning the session_id argument instead of the resolved one
start_session_returns_arg(visitor_id, session_id, user_agent, ip_address, referrer, entry_page, utm_source, utm_medium, utm_campaign, utm_term, utm_content, n, t, o) ==
    LET sid == IF Falsy(session_id) THEN generate_session_id(n) ELSE session_id
    IN  Result(<<_send("session.start",
                       [visitorId |-> visitor_id, sessionId |-> sid,
                        timestamp |-> t, referrer |-> referrer, entryPage |-> entry_page,
                        device |-> [userAgent |-> user_agent],
                        utm |-> [utmSource |-> utm_source, utmMedium |-> utm_medium,
                                 utmCampaign |-> utm_campaign, utmTerm |-> utm_term,
                                 utmContent |-> utm_content]], o)>>,
               [session_id |-> session_id, visitor_id |-> visitor_id],
               IF Falsy(session_id) THEN <<sid>> ELSE <<>>)

\* CRM360Tracker.start_session
start_session(visitor_id, session_id, user_agent, ip_address, referrer, entry_page, utm_source, utm_medium, utm_campaign, utm_term, utm_content, n, t, o) ==
    LET sid == IF Falsy(session_id) THEN generate_session_id(n) ELSE session_id
    IN  Result(<<_send("session.start",
                       [visitorId |-> visitor_id, sessionId |-> sid,
                        timestamp |-> t, referrer |-> referrer, entryPage |-> entry_page,
                        device |-> [userAgent |-> user_agent],
                        utm |-> [utmSource |-> utm_source, utmMedium |-> utm_medium,
                                 utmCampaign |-> utm_campaign, utmTerm |-> utm_term,
                                 utmContent |-> utm_content]], o)>>,
               [session_id |-> sid, visitor_id |-> visitor_id],
               IF Falsy(session_id) THEN <<sid>> ELSE <<>>)

\* CRM360Tracker.track_page_view; url is the parsed form of the url argument
track_page_view(visitor_id, session_id, url, title, referrer, load_time, t, o) ==
    LET path == IF urlparse_path(url) = "" THEN "/" ELSE urlparse_path(url)
        ev == _send("page.view",
                    [sessionId |-> session_id, visitorId |-> visitor_id,
                     url |-> geturl(url), path |-> path, title |-> title,
                     referrer |-> referrer, timestamp |-> t,
                     loadTime |-> load_time], o)
    IN  Result(<<ev>>, ev.result, <<>>)

\* CRM360Tracker.track_event; metadata is None or a dict
track_event(visitor_id, session_id, event_name, event_type, category, value, metadata, t, o) ==
    LET ev == _send("events.batch",
                    [sessionId |-> session_id,
                     events |-> <<[type |-> event_type, name |-> event_name,
                                   category |-> category, value |-> value,
                                   metadata |-> IF FalsyDict(metadata) THEN <<>>
                                                ELSE metadata.dict,
                                   timestamp |-> t]>>], o)
    IN  Result(<<ev>>, ev.result, <<>>)

\* track_form_submission leaving the timestamp out of the payload
track_form_submission_no_timestamp(visitor_id, session_id, form_id, form_action, fields, t, o) ==
    LET ev == _send("form.submit",
                    [sessionId |-> session_id, formId |-> form_id,
                     formAction |-> form_action, fields |-> mask_fields(fields)], o)
    IN  Result(<<ev>>, ev.result, <<>>)

\* CRM360Tracker.track_form_submission
track_form_submission(visitor_id, session_id, form_id, form_action, fields, t, o) ==
    LET ev == _send("form.submit",
                    [sessionId |-> session_id, formId |-> form_id,
                     formAction |-> form_action, fields |-> mask_fields(fields),
                     timestamp |-> t], o)
    IN  Result(<<ev>>, ev.result, <<>>)

\* the named traits and **traits merged, None values removed
all_traits(email, user_id, name, phone, company, traits) ==
    LET named == [email |-> email, userId |-> user_id, name |-> name,
                  phone |-> phone, company |-> company]
        merged == [k \in DOMAIN named \cup DOMAIN traits |->
                     IF k \in DOMAIN traits THEN traits[k] ELSE named[k]]
    IN  [k \in {x \in DOMAIN merged : merged[x] # NULL} |-> merged[k]]

\* CRM360Tracker.identify
identify(visitor_id, session_id, email, user_id, name, phone, company, traits, t, o) ==
    LET ev == _send("user.identify",
                    [sessionId |-> session_id, visitorId |-> visitor_id,
                     userId |-> user_id,
                     traits |-> all_traits(email, user_id, name, phone, company, traits),
                     timestamp |-> t], o)
    IN  Result(<<ev>>, ev.result, <<>>)

\* CRM360Tracker.end_session
end_session(visitor_id, session_id, exit_page, t, o) ==
    LET ev == _send("page.leave",
                    [sessionId |-> session_id, url |-> exit_page,
                     path |-> exit_page, timestamp |-> t], o)
    IN  Result(<<ev>>, ev.result, <<>>)

-----------------------------------------------------------------------------
(* Framework hooks.  A request carries its cookies, the User-Agent header  *)
(* (NULL when absent), the remote address, the parsed URL, the Referer     *)
(* header and the utm_* query parameters.                                  *)

\* the host application's handler running
Handler == [kind |-> "handler", raised |-> FALSE]

SetCookie(name, value, max_age) ==
    [kind |-> "set_cookie", name |-> name, value |-> value,
     max_age |-> max_age, raised |-> FALSE]

\* the two set_cookie calls with the max-ages exchanged
set_cookies_swapped_age(visitor_id, session_id) ==
    <<SetCookie(VID_COOKIE, visitor_id, SID_MAX_AGE),
      SetCookie(SID_COOKIE, session_id, VID_MAX_AGE)>>

\* the two set_cookie calls both storing the visitor id
set_cookies_same_value(visitor_id, session_id) ==
    <<SetCookie(VID_COOKIE, visitor_id, VID_MAX_AGE),
      SetCookie(SID_COOKIE, visitor_id, SID_MAX_AGE)>>

\* response.set_cookie("crm360_vid", ...); response.set_cookie("crm360_sid", ...)
set_cookies(visitor_id, session_id) ==
    <<SetCookie(VID_COOKIE, visitor_id, VID_MAX_AGE),
      SetCookie(SID_COOKIE, session_id, SID_MAX_AGE)>>

\* a session started for every request, whatever the cookie
is_new_session_always(cookie_sid) == TRUE

\* `if not session_id:` on the crm360_sid cookie
is_new_session(cookie_sid) == Falsy(cookie_sid)

\* dict.get(key, "") on a header
GetOrEmpty(x) == IF x = NULL THEN "" ELSE x

Raised(events) == events # <<>> /\ events[Len(events)].raised

\* the middleware tracking the page view of new sessions only
django_call_view_if_new(request, n, t, o1, o2) ==
    LET cookie_vid == request.cookies.vid
        cookie_sid == request.cookies.sid
        visitor_id == IF Falsy(cookie_vid)
                      THEN generate_visitor_id(GetOrEmpty(request.ua), GetOrEmpty(request.ip))
                      ELSE cookie_vid
        is_new == is_new_session(cookie_sid)
        session_id == IF is_new THEN generate_session_id(n) ELSE cookie_sid
        started == IF is_new
                   THEN start_session(visitor_id, session_id, request.ua, request.ip,
                                      request.referrer, geturl(request.url),
                                      request.utm_source, request.utm_medium,
                                      request.utm_campaign, NULL, NULL, n, t, o1).events
                   ELSE <<>>
        viewed == IF Raised(started) \/ ~is_new THEN <<>>
                  ELSE track_page_view(visitor_id, session_id, request.url, NULL,
                                       request.referrer, NULL, t, o2).events
        rest == IF Raised(started) \/ Raised(viewed) THEN <<>>
                ELSE <<Handler>> \o set_cookies(visitor_id, session_id)
    IN  [events |-> started \o viewed \o rest,
         raised |-> Raised(started) \/ Raised(viewed),
         visitor_id |-> visitor_id, session_id |-> session_id,
         is_new |-> is_new, gen |-> IF is_new THEN <<session_id>> ELSE <<>>]

\* DjangoTrackerMiddleware.__call__
django_call(request, n, t, o1, o2) ==
    LET cookie_vid == request.cookies.vid
        cookie_sid == request.cookies.sid
        visitor_id == IF Falsy(cookie_vid)
                      THEN generate_visitor_id(GetOrEmpty(request.ua), GetOrEmpty(request.ip))
                      ELSE cookie_vid
        is_new == is_new_session(cookie_sid)
        session_id == IF is_new THEN generate_session_id(n) ELSE cookie_sid
        started == IF is_new
                   THEN start_session(visitor_id, session_id, request.ua, request.ip,
                                      request.referrer, geturl(request.url),
                                      request.utm_source, request.utm_medium,
                                      request.utm_campaign, NULL, NULL, n, t, o1).events
                   ELSE <<>>
        viewed == IF Raised(started) THEN <<>>
                  ELSE track_page_view(visitor_id, session_id, request.url, NULL,
                                       request.referrer, NULL, t, o2).events
        rest == IF Raised(started) \/ Raised(viewed) THEN <<>>
                ELSE <<Handler>> \o set_cookies(visitor_id, session_id)
    IN  [events |-> started \o viewed \o rest,
         raised |-> Raised(started) \/ Raised(viewed),
         visitor_id |-> visitor_id, session_id |-> session_id,
         is_new |-> is_new, gen |-> IF is_new THEN <<session_id>> ELSE <<>>]

\* flask.g of a request before before_request has run
EmptyG == [has |-> FALSE, crm360_visitor_id |-> NULL, crm360_session_id |-> NULL]

\* FlaskTracker.init_app.before_request
before_request(request, n, t, o1) ==
    LET cookie_vid == request.cookies.vid
        cookie_sid == request.cookies.sid
        visitor_id == IF Falsy(cookie_vid)
                      THEN generate_visitor_id(GetOrEmpty(request.ua), request.ip)
                      ELSE cookie_vid
        is_new == is_new_session(cookie_sid)
        session_id == IF is_new THEN generate_session_id(n) ELSE cookie_sid
        started == IF is_new
                   THEN start_session(visitor_id, session_id, request.ua, request.ip,
                                      request.referrer, geturl(request.url),
                                      request.utm_source, request.utm_medium,
                                      request.utm_campaign, NULL, NULL, n, t, o1).events
                   ELSE <<>>
    IN  [events |-> started,
         raised |-> Raised(started),
         g      |-> IF Raised(started) THEN EmptyG
                    ELSE [has |-> TRUE, crm360_visitor_id |-> visitor_id,
                          crm360_session_id |-> session_id],
         is_new |-> is_new, gen |-> IF is_new THEN <<session_id>> ELSE <<>>]

\* FlaskTracker.init_app.after_request
after_request(g) ==
    IF g.has THEN set_cookies(g.crm360_visitor_id, g.crm360_session_id) ELSE <<>>

\* FlaskTracker.track_page: the wrapper `decorated`, up to the call of f
track_page(request, g, f_name, t, o2) ==
    IF g.has
    THEN track_page_view(g.crm360_visitor_id, g.crm360_session_id, request.url,
                         f_name, request.referrer, NULL, t, o2).events
    ELSE <<>>

\* FlaskTracker.identify, called by the host's handler
flask_identify(g, email, t, o3) ==
    IF g.has
    THEN identify(g.crm360_visitor_id, g.crm360_session_id, email,
                  NULL, NULL, NULL, NULL, <<>>, t, o3).events
    ELSE <<>>

\* one request through a Flask app with the tracker installed: before_request,
\* the view (wrapped by track_page or not, calling identify or not), after_request
flask_request(request, decorated, email, n, t, o1, o2, o3) ==
    LET before == before_request(request, n, t, o1)
        g == before.g
        viewed == IF before.raised \/ ~decorated THEN <<>>
                  ELSE track_page(request, g, "products", t, o2)
        identified == IF before.raised \/ Raised(viewed) \/ email = NULL THEN <<>>
                      ELSE flask_identify(g, email, t, o3)
        view == IF before.raised \/ Raised(viewed) THEN <<>>
                ELSE <<Handler>> \o identified
        after == IF before.raised \/ Raised(view) THEN <<>> ELSE after_request(g)
    IN  [events |-> before.events \o viewed \o view \o after,
         raised |-> before.raised \/ Raised(viewed) \/ Raised(view),
         visitor_id |-> g.crm360_visitor_id, session_id |-> g.crm360_session_id,
         is_new |-> before.is_new, gen |-> before.gen]

-----------------------------------------------------------------------------
(* Inputs *)

VisitorIds == {"visitor-123"}
SessionIds == {"session-456"}
OptionalSessionIds == SessionIds \cup {NULL, ""}
UserAgents == {NULL, "Mozilla/5.0"}
RemoteAddr == "203.0.113.7"
Emails == {NULL, "user@example.com"}
ExitPages == {NULL, "/products"}
MetadataArgs == {NoDict, Dict([button |-> "buy"])}
ExtraTraits == {<<>>, [plan |-> "pro", email |-> "other@example.com"]}

FieldKeys ==
    { <<"p","a","s","s","w","o","r","d">>,
      <<"e","m","a","i","l">>,
      <<"A","P","I","_","T","o","k","e","n">>,
      <<"d","i","s","c","a","r","d">>,
      <<"p","a","s","s">> }
FieldValues == {"abc", "a@b.com"}

\* the fields arguments: None, and the dicts of at most MaxFields fields
FieldsArgs ==
    {NoDict} \cup
    {Dict(d) : d \in UNION {[K -> FieldValues] :
                   K \in {S \in SUBSET FieldKeys : Cardinality(S) <= MaxFields}}}

\* the fields of the example of the documentation, None and the empty dict
SampleFields ==
    {NoDict, Dict(<<>>),
     Dict([k \in {<<"p","a","s","s","w","o","r","d">>, <<"e","m","a","i","l">>} |->
             IF k = <<"e","m","a","i","l">> THEN "a@b.com" ELSE "abc"])}

\* the outcomes of the POSTs of a request served through a hook
HookOutcomes == {o \in Outcomes : o.kind = "exception" \/ o.status_code \in {200, 500}}
Unused == [kind |-> "response", status_code |-> 200]

\* cookie values a client can send that no response of the hooks has set
ForgedJars == {[vid |-> "", sid |-> ""],
               [vid |-> "visitor-123", sid |-> "session-456"]}

NoCookies == [vid |-> NULL, sid |-> NULL]
NoResp == [vid |-> NULL, sid |-> NULL, visitor_id |-> NULL, session_id |-> NULL]

\* the requests: a page of the site reached from a mailing, with or without a
\* User-Agent header, sent with the cookies the client holds
Requests(cookies) ==
    {[cookies |-> cookies, ua |-> ua, ip |-> RemoteAddr,
      url |-> [origin |-> "https://example.com", path |-> "/products",
               query |-> "utm_source=mail"],
      referrer |-> "https://example.com", utm_source |-> "mail",
      utm_medium |-> NULL, utm_campaign |-> NULL] : ua \in UserAgents}

-----------------------------------------------------------------------------
(* State machine *)

Init ==
    /\ now = 0
    /\ drawn = <<>>
    /\ jar = NoCookies
    /\ resp = NoResp
    /\ last = [op |-> "init", args |-> <<>>, events |-> <<>>, ret |-> NULL,
               raised |-> FALSE]

\* time passes between two operations
Tick ==
    /\ now < MaxClock
    /\ now' = now + 1
    /\ UNCHANGED <<drawn, jar, resp, last>>

\* a direct call of the tracker's API
Call(op, args, r) ==
    /\ Len(drawn) + Len(r.gen) <= MaxUuid
    /\ drawn' = drawn \o r.gen
    /\ last' = [op |-> op, args |-> args, events |-> r.events, ret |-> r.ret,
                raised |-> r.raised]
    /\ UNCHANGED <<now, jar, resp>>

StartSession ==
    \E visitor_id \in VisitorIds, session_id \in OptionalSessionIds, o \in Outcomes :
        Call("start_session", [visitor_id |-> visitor_id, session_id |-> session_id],
             start_session(visitor_id, session_id, "Mozilla/5.0", RemoteAddr, NULL,
                           NULL, NULL, NULL, NULL, NULL, NULL, Len(drawn), now, o))

TrackPageView ==
    \E visitor_id \in VisitorIds, session_id \in SessionIds, url \in Urls,
       o \in Outcomes :
        Call("track_page_view", [visitor_id |-> visitor_id, session_id |-> session_id],
             track_page_view(visitor_id, session_id, url, NULL, NULL, NULL, now, o))

TrackEvent ==
    \E visitor_id \in VisitorIds, session_id \in SessionIds,
       metadata \in MetadataArgs, o \in Outcomes :
        Call("track_event", [visitor_id |-> visitor_id, session_id |-> session_id],
             track_event(visitor_id, session_id, "button_click", "custom", NULL,
                         NULL, metadata, now, o))

TrackFormSubmissionOf(Fields) ==
    \E visitor_id \in VisitorIds, session_id \in SessionIds,
       fields \in Fields, o \in Outcomes :
        Call("track_form_submission",
             [visitor_id |-> visitor_id, session_id |-> session_id, fields |-> fields],
             track_form_submission(visitor_id, session_id, "signup", NULL,
                                   fields, now, o))

TrackFormSubmission == TrackFormSubmissionOf(FieldsArgs)

TrackFormSubmissionSample == TrackFormSubmissionOf(SampleFields)

Identify ==
    \E visitor_id \in VisitorIds, session_id \in SessionIds, email \in Emails,
       traits \in ExtraTraits, o \in Outcomes :
        Call("identify", [visitor_id |-> visitor_id, session_id |-> session_id],
             identify(visitor_id, session_id, email, NULL, "Jane", NULL, NULL,
                      traits, now, o))

EndSession ==
    \E visitor_id \in VisitorIds, session_id \in SessionIds,
       exit_page \in ExitPages, o \in Outcomes :
        Call("end_session", [visitor_id |-> visitor_id, session_id |-> session_id],
             end_session(visitor_id, session_id, exit_page, now, o))

\* the value the response sets for a cookie (the last set_cookie wins), or old
CookieValue(events, name, old) ==
    LET sets == {i \in 1..Len(events) :
                    events[i].kind = "set_cookie" /\ events[i].name = name}
    IN  IF sets = {} THEN old
        ELSE events[CHOOSE i \in sets : \A j \in sets : j <= i].value

\* a request served through a hook; the client sent its jar and stores the
\* cookies of the response
Serve(op, request, decorated, email, r) ==
    /\ Len(drawn) + Len(r.gen) <= MaxUuid
    /\ drawn' = drawn \o r.gen
    /\ last' = [op |-> op,
                args |-> [request |-> request, prev |-> resp,
                          decorated |-> decorated, email |-> email],
                events |-> r.events,
                ret |-> [visitor_id |-> r.visitor_id, session_id |-> r.session_id,
                         is_new |-> r.is_new],
                raised |-> r.raised]
    /\ jar' = [vid |-> CookieValue(r.events, VID_COOKIE, jar.vid),
               sid |-> CookieValue(r.events, SID_COOKIE, jar.sid)]
    /\ resp' = [vid |-> CookieValue(r.events, VID_COOKIE, NULL),
                sid |-> CookieValue(r.events, SID_COOKIE, NULL),
                visitor_id |-> r.visitor_id, session_id |-> r.session_id]
    /\ UNCHANGED now

\* the outcomes to choose for a POST that is made (used) or not
OutcomesIf(used) == IF used THEN HookOutcomes ELSE {Unused}

DjangoRequest ==
    \E request \in Requests(jar) :
    \E o1 \in OutcomesIf(Falsy(jar.sid)), o2 \in HookOutcomes :
        Serve("django", request, FALSE, NULL,
              django_call(request, Len(drawn), now, o1, o2))

FlaskRequest ==
    \E request \in Requests(jar), decorated \in BOOLEAN, email \in Emails :
    \E o1 \in OutcomesIf(Falsy(jar.sid)), o2 \in OutcomesIf(decorated),
       o3 \in OutcomesIf(email # NULL) :
        Serve("flask", request, decorated, email,
              flask_request(request, decorated, email, Len(drawn), now, o1, o2, o3))

\* the crm360_sid cookie reaches its max-age of 30 minutes
ExpireSessionCookie ==
    /\ jar.sid # NULL
    /\ jar' = [jar EXCEPT !.sid = NULL]
    /\ UNCHANGED <<now, drawn, resp, last>>

\* the client drops its cookies
ClearCookies ==
    /\ jar # NoCookies
    /\ jar' = NoCookies
    /\ resp' = NoResp
    /\ UNCHANGED <<now, drawn, last>>

\* the client sends cookies of its own making
ForgeCookies ==
    /\ jar' \in ForgedJars
    /\ jar' # jar
    /\ resp' = NoResp
    /\ UNCHANGED <<now, drawn, last>>

\* the tracker's API and the hooks, at one reading of the clock
Next ==
    \/ StartSession
    \/ TrackPageView
    \/ TrackEvent
    \/ TrackFormSubmissionSample
    \/ Identify
    \/ EndSession
    \/ DjangoRequest
    \/ FlaskRequest
    \/ ExpireSessionCookie
    \/ ClearCookies
    \/ ForgeCookies

Spec == Init /\ [][Next]_vars

\* the tracker's API as time passes
NextClock ==
    \/ Tick
    \/ StartSession
    \/ TrackPageView
    \/ TrackEvent
    \/ TrackFormSubmissionSample
    \/ Identify
    \/ EndSession

SpecClock == Init /\ [][NextClock]_vars

\* track_form_submission alone, over every fields argument of the bound
NextForm ==
    \/ TrackFormSubmission

SpecForm == Init /\ [][NextForm]_vars

-----------------------------------------------------------------------------
(* Reading the trace of the latest operation *)

Events == last.events
Sends == {i \in 1..Len(Events) : Events[i].kind = "send"}
SendsOf(type) == {i \in Sends : Events[i].payload.type = type}
Handlers == {i \in 1..Len(Events) : Events[i].kind = "handler"}
CookiesSet(name) ==
    {i \in 1..Len(Events) : Events[i].kind = "set_cookie" /\ Events[i].name = name}
Data(i) == Events[i].payload.data
IsHook == last.op \in {"django", "flask"}
CookieSid == last.args.request.cookies.sid
CookieVid == last.args.request.cookies.vid

\* the envelope i carries these ids (the visitor id where its type has one)
Carries(i, visitor_id, session_id) ==
    /\ Data(i).sessionId = session_id
    /\ "visitorId" \in DOMAIN Data(i) => Data(i).visitorId = visitor_id

-----------------------------------------------------------------------------
(* C1 *)

\* C1: every _send returns true exactly when the POST answered with status
\* 200, false for every other status and for an exception of the POST, and
\* no exception leaves it.
C1_SendResult ==
    \A i \in Sends :
        /\ Events[i].result \in BOOLEAN
        /\ Events[i].result <=> (Events[i].outcome.kind = "response"
                                 /\ Events[i].outcome.status_code = 200)
        /\ ~Events[i].raised
        /\ ~last.raised

C1_Witness ==
    /\ last.op = "track_page_view"
    /\ \E i \in Sends : Events[i].outcome.kind = "exception"
    /\ last.ret = FALSE

-----------------------------------------------------------------------------
(* C2 *)

\* C2: every envelope handed to _send, by a direct call or through a hook,
\* carries a data.sessionId that is not None.
C2_SessionIdNotNull ==
    \A i \in Sends :
        /\ "sessionId" \in DOMAIN Data(i)
        /\ Data(i).sessionId # NULL

C2_Witness ==
    /\ last.op = "start_session"
    /\ last.args.session_id = NULL
    /\ SendsOf("session.start") # {}

-----------------------------------------------------------------------------
(* C3 *)

\* C3: whatever the outcome of each tracking POST of a request served through
\* a hook, no exception leaves the hook, the host's handler runs once and the
\* response carries both tracking cookies.
C3_HostNeverBroken ==
    IsHook =>
        /\ ~last.raised
        /\ Cardinality(Handlers) = 1
        /\ \A h \in Handlers :
              /\ \E c \in CookiesSet(VID_COOKIE) : c > h
              /\ \E c \in CookiesSet(SID_COOKIE) : c > h

C3_Witness ==
    /\ last.op = "django"
    /\ Cardinality(Sends) = 2
    /\ \E i \in Sends : Events[i].outcome.kind = "exception"
    /\ \E i \in Sends : Events[i].outcome.kind = "response"
                        /\ Events[i].outcome.status_code = 500
    /\ Handlers # {}

-----------------------------------------------------------------------------
(* C4 *)

\* exactly one session.start, carrying the ids resolved for the request, sent
\* before the handler, with a session id generated for this request
StartsNewSession ==
    /\ Cardinality(SendsOf("session.start")) = 1
    /\ \A i \in SendsOf("session.start") :
          /\ Data(i).sessionId = last.ret.session_id
          /\ Data(i).visitorId = last.ret.visitor_id
          /\ \A h \in Handlers : i < h
    /\ last.ret.session_id # CookieSid
    /\ drawn # <<>> /\ drawn[Len(drawn)] = last.ret.session_id

\* no session.start, and the cookie's value is the session id of the request
ContinuesSession ==
    /\ SendsOf("session.start") = {}
    /\ last.ret.session_id = CookieSid

\* C4 as stated: a request without the crm360_sid cookie starts a new session,
\* a request with the cookie sends no session.start and uses the cookie's value.
C4_AsStated ==
    IsHook =>
        /\ CookieSid = NULL => StartsNewSession
        /\ CookieSid # NULL => ContinuesSession

\* C4, amended: a request whose crm360_sid cookie is absent or empty starts a
\* new session (one session.start with the generated session id and the
\* resolved visitor id, before the handler); a request with a non-empty cookie
\* sends no session.start and uses the cookie's value as the session id.
C4_NewSessionIffNoSid ==
    IsHook =>
        /\ (CookieSid = NULL \/ CookieSid = "") => StartsNewSession
        /\ (CookieSid # NULL /\ CookieSid # "") => ContinuesSession

C4_Witness ==
    /\ last.op = "flask"
    /\ CookieSid = ""
    /\ SendsOf("session.start") # {}
    /\ Handlers # {}

-----------------------------------------------------------------------------
(* C5 *)

\* C5: the Django middleware sends exactly one page.view per request, after
\* the session.start of the request if there is one and before the handler;
\* the Flask integration sends a page.view only for a handler wrapped by
\* track_page.
C5_PageViews ==
    /\ last.op = "django" =>
          /\ Cardinality(SendsOf("page.view")) = 1
          /\ \A p \in SendsOf("page.view") :
                /\ \A i \in SendsOf("session.start") : i < p
                /\ \A h \in Handlers : p < h
    /\ last.op = "flask" =>
          (~last.args.decorated => SendsOf("page.view") = {})

C5_Witness ==
    /\ last.op = "django"
    /\ ~last.ret.is_new
    /\ SendsOf("page.view") # {}
    /\ Handlers # {}

-----------------------------------------------------------------------------
(* C6 *)

\* C6: the response of a request served through a hook sets crm360_vid with a
\* max-age of 31536000 s and crm360_sid with a max-age of 1800 s, and their
\* values are the visitor id and the session id resolved for the request and
\* carried by its envelopes.
C6_Cookies ==
    IsHook =>
        /\ Cardinality(CookiesSet("crm360_vid")) = 1
        /\ Cardinality(CookiesSet("crm360_sid")) = 1
        /\ \A c \in CookiesSet("crm360_vid") :
              Events[c].max_age = 31536000 /\ Events[c].value = last.ret.visitor_id
        /\ \A c \in CookiesSet("crm360_sid") :
              Events[c].max_age = 1800 /\ Events[c].value = last.ret.session_id
        /\ \A i \in Sends : Carries(i, last.ret.visitor_id, last.ret.session_id)

C6_Witness ==
    /\ last.op = "flask"
    /\ last.ret.is_new
    /\ last.args.decorated
    /\ CookiesSet("crm360_sid") # {}
    /\ jar.sid = last.ret.session_id

-----------------------------------------------------------------------------
(* C7 *)

\* C7 as stated: the data of every envelope has a sessionId field and a
\* timestamp field of its own.
C7_AsStated ==
    \A i \in Sends :
        /\ "sessionId" \in DOMAIN Data(i)
        /\ "timestamp" \in DOMAIN Data(i)

\* C7, amended: the data of every envelope has a sessionId field; the data of
\* every envelope other than events.batch has a timestamp field holding a
\* reading of the clock in milliseconds, and the data of an events.batch envelope has none of
\* its own: each event of its events list has it.
C7_SessionIdAndTimestamp ==
    \A i \in Sends :
        /\ "sessionId" \in DOMAIN Data(i)
        /\ IF Events[i].payload.type = "events.batch"
           THEN /\ "timestamp" \notin DOMAIN Data(i)
                /\ Len(Data(i).events) = 1
                /\ \A j \in 1..Len(Data(i).events) :
                      /\ "timestamp" \in DOMAIN Data(i).events[j]
                      /\ Data(i).events[j].timestamp \in 0..now
           ELSE /\ "timestamp" \in DOMAIN Data(i)
                /\ Data(i).timestamp \in 0..now

C7_Witness ==
    /\ last.op = "track_event"
    /\ \E i \in SendsOf("events.batch") : Data(i).events[1].timestamp = 1
    /\ now = 1

-----------------------------------------------------------------------------
(* C8 *)

\* two characters that are the same letter, whatever their case
SameLetter(c, d) ==
    \/ c = d
    \/ \E i \in 1..26 : {c, d} = {UpperCase[i], LowerCase[i]}

\* key contains word at some offset, compared letter by letter without case
ContainsIgnoringCase(key, word) ==
    \E off \in 0..(Len(key) - Len(word)) :
        \A j \in 1..Len(word) : SameLetter(key[off + j], word[j])

DenyList ==
    { <<"p","a","s","s","w","o","r","d">>, <<"s","e","c","r","e","t">>,
      <<"t","o","k","e","n">>, <<"c","r","e","d","i","t">>, <<"c","a","r","d">>,
      <<"c","v","v">>, <<"s","s","n">> }

\* C8: the fields of the form.submit envelope have exactly the keys of the
\* fields argument; a key containing, without regard to case, one of password,
\* secret, token, credit, card, cvv, ssn has the value "***", every other key
\* its original value; None and the empty dict give the empty map.
C8_MaskedFields ==
    last.op = "track_form_submission" =>
        /\ Cardinality(SendsOf("form.submit")) = 1
        /\ \A i \in SendsOf("form.submit") :
              LET given == last.args.fields
                  sent == Data(i).fields
              IN  /\ DOMAIN sent = (IF given.is_none THEN {} ELSE DOMAIN given.dict)
                  /\ \A key \in DOMAIN sent :
                        sent[key] = IF \E word \in DenyList :
                                          ContainsIgnoringCase(key, word)
                                    THEN "***"
                                    ELSE given.dict[key]

C8_Witness ==
    /\ last.op = "track_form_submission"
    /\ ~last.args.fields.is_none
    /\ \E i \in SendsOf("form.submit") :
          /\ DOMAIN Data(i).fields = {<<"A","P","I","_","T","o","k","e","n">>,
                                      <<"e","m","a","i","l">>}
          /\ Data(i).fields[<<"A","P","I","_","T","o","k","e","n">>] = "***"
          /\ Data(i).fields[<<"e","m","a","i","l">>] = "a@b.com"

-----------------------------------------------------------------------------
(* C9 *)

\* the session id returned is the latest one generated, differs from every
\* one generated before and is a session id
ReturnsFreshId ==
    /\ drawn # <<>>
    /\ last.ret.session_id = drawn[Len(drawn)]
    /\ \A j \in 1..(Len(drawn) - 1) : drawn[j] # last.ret.session_id
    /\ last.ret.session_id \notin {NULL, ""}

\* one session.start envelope with the ids returned, whatever the POST did
SendsWhatItReturns ==
    /\ ~last.raised
    /\ DOMAIN last.ret = {"session_id", "visitor_id"}
    /\ last.ret.visitor_id = last.args.visitor_id
    /\ Cardinality(Sends) = 1
    /\ SendsOf("session.start") = Sends
    /\ \A i \in Sends :
          /\ Data(i).sessionId = last.ret.session_id
          /\ Data(i).visitorId = last.ret.visitor_id

\* C9 as stated: start_session generates a fresh session id when session_id
\* is omitted and keeps the supplied value otherwise.
C9_AsStated ==
    last.op = "start_session" =>
        /\ last.args.session_id = NULL => ReturnsFreshId
        /\ last.args.session_id # NULL => last.ret.session_id = last.args.session_id
        /\ SendsWhatItReturns

\* C9, amended: start_session generates a fresh session id, distinct from
\* every one generated before, when session_id is omitted or empty, and keeps
\* a supplied non-empty value; it sends exactly one session.start envelope
\* whose sessionId and visitorId are the ones it returns, and returns the pair
\* whether or not the send succeeded.
C9_ResolvesSessionOnce ==
    last.op = "start_session" =>
        /\ (last.args.session_id = NULL \/ last.args.session_id = "")
              => ReturnsFreshId
        /\ (last.args.session_id # NULL /\ last.args.session_id # "")
              => last.ret.session_id = last.args.session_id
        /\ SendsWhatItReturns

C9_Witness ==
    /\ last.op = "start_session"
    /\ last.args.session_id = NULL
    /\ Len(drawn) >= 2
    /\ \E i \in Sends : ~Events[i].result
    /\ last.ret.session_id = drawn[Len(drawn)]

-----------------------------------------------------------------------------
(* C10 *)

\* the client sent back both cookies of the previous response
ReturnedCookies ==
    /\ IsHook
    /\ last.args.prev.sid # NULL
    /\ CookieVid = last.args.prev.vid
    /\ CookieSid = last.args.prev.sid

\* the client sent back the visitor cookie of the previous response, the
\* session cookie having expired
ReturnedVisitorCookieOnly ==
    /\ IsHook
    /\ last.args.prev.vid # NULL
    /\ CookieVid = last.args.prev.vid
    /\ CookieSid = NULL

\* C10: a request returning the cookies of the previous response sends no
\* session.start and all its envelopes carry the visitor id and session id of
\* the previous request; a request returning only the visitor cookie starts a
\* new session with another session id and the same visitor id.
C10_SessionContinuity ==
    /\ ReturnedCookies =>
          /\ SendsOf("session.start") = {}
          /\ last.ret.session_id = last.args.prev.session_id
          /\ last.ret.visitor_id = last.args.prev.visitor_id
          /\ \A i \in Sends :
                Carries(i, last.args.prev.visitor_id, last.args.prev.session_id)
    /\ ReturnedVisitorCookieOnly =>
          /\ Cardinality(SendsOf("session.start")) = 1
          /\ last.ret.session_id # last.args.prev.session_id
          /\ last.ret.visitor_id = last.args.prev.visitor_id
          /\ \A i \in Sends :
                Carries(i, last.args.prev.visitor_id, last.ret.session_id)

C10_Witness ==
    /\ last.op = "flask"
    /\ ReturnedCookies
    /\ last.args.decorated
    /\ last.args.prev.session_id \in {drawn[j] : j \in 1..Len(drawn)}
    /\ SendsOf("page.view") # {}

=============================================================================
